---- MODULE Spec2Model ----
(***************************************************************************)
(* The rendering controller of bat (src/src/controller.rs):                *)
(* Controller::run_with_error_handler, print_input, print_file and         *)
(* print_file_ranges, as one sequential state machine.  The collaborators  *)
(* whose code is not part of controller.rs (Input::open, OutputType,       *)
(* get_git_diff, the printers, LineRanges::check) are the environment:     *)
(* every call to one of them that returns a Result may return Err, and     *)
(* the data they hand back is drawn from small sets.                       *)
(***************************************************************************)
EXTENDS Integers, Sequences, FiniteSets, TLC

(* ------------------------------ bounds -------------------------------- *)
\* longest list of inputs handed to run_with_error_handler
MaxInputs == 2
\* largest number of lines of an input that is rendered alone
MaxLine == 6
\* largest number of lines of an input that is one of several
BatchLine == 2
\* largest number of entries of a change map, and of explicit ranges, for an
\* input that is rendered alone
MaxChanges == 2
\* largest diff-context radius
MaxContext == 2

(* ------------------------- program constants -------------------------- *)
TAB_WIDTH == 4
SizeThreshold == 1000
WideLines == 9999

\* Option<T>: None, or Some(x)
None == <<>>
Some(x) == <<x>>

Max(a, b) == IF a > b THEN a ELSE b

(* ------------------------------ state --------------------------------- *)
VARIABLES
  config,            \* self.config: the read-only configuration of the run
  inputs,            \* the Vec<Input> handed to run_with_error_handler
  pc,                \* the controller's position
  paging_mode,       \* the mode handed to OutputType::from_mode
  output_type,       \* "Pager" | "Stdout" once constructed
  attached_to_pager,
  stdout_identifier, \* "None" | "SameAsStdin" | "Other"
  writer,            \* "none" | "writer": what output_type.handle() gave
  no_errors,
  index,             \* 1-based position in inputs of the current input
  stdin,             \* the stream handed to print_input: "stdin" | "empty"
  opened,            \* input.open returned the opened input
  first_line_empty,  \* opened_input.reader.first_line.is_empty()
  size,              \* opened_input.metadata.size
  file_num_lines,    \* opened_input.description.file_num_lines()
  line_changes,      \* None | Some(the changed line numbers, in key order)
  line_number_width, \* config.line_number_width of the per-input copy
  printer,           \* "none" | "Simple" | "Interactive"
  add_header_padding,
  line_ranges,       \* the resolved LineRanges, a sequence of <<lower, upper>>
  cursor,            \* the classifier's position in line_ranges
  line_number,
  first_range,
  mid_range,
  last_check,        \* result of the last line_ranges.check
  stopped,           \* the loop was left by its break
  reads,             \* read_line calls made on the current input
  lines_read,        \* read_line calls that delivered a line
  calls,             \* calls received by the current input's printer
  result,            \* what print_input returned: "none" | "Ok" | "Err"
  skipped,           \* print_input returned early by the diff-mode rule
  outcomes,          \* per finished input: "ok" | "skipped" | "err"
  handled,           \* the error handler's invocations: <<index, writer>>
  ret,               \* what run_with_error_handler returned
  log                \* the run's calls in order: <<"open" | "render" | "handle", index>>

runVars == <<config, inputs, paging_mode, output_type, attached_to_pager,
             stdout_identifier, writer, no_errors, index, outcomes, handled, ret>>
inputVars == <<stdin, opened, first_line_empty, size, file_num_lines,
               line_changes, line_number_width, printer, add_header_padding,
               result, skipped>>
streamVars == <<line_ranges, cursor, line_number, first_range, mid_range,
                last_check, stopped, reads, lines_read, calls>>
vars == <<pc, runVars, inputVars, streamVars, log>>

(* --------------------- the environment's value sets -------------------- *)
\* InputKind: a named file (which may or may not exist) or the standard stream
InputSet ==
  { [kind |-> "StdIn", exists |-> FALSE] }
  \cup { [kind |-> "OrdinaryFile", exists |-> e] : e \in BOOLEAN }

RECURSIVE SeqsUpTo(_, _)
SeqsUpTo(S, n) ==
  IF n = 0 THEN { <<>> }
  ELSE LET shorter == SeqsUpTo(S, n - 1)
       IN shorter \cup { Append(q, x) : q \in shorter, x \in S }

\* LineRange::new(lower, upper) values of explicit ranges, kept ordered and disjoint
RangeSet == { r \in (1..MaxLine) \X (1..MaxLine) : r[1] <= r[2] }
IsOrdered(rs) ==
  /\ \A k \in 1..Len(rs) : rs[k][1] <= rs[k][2]
  /\ \A k \in 1..(Len(rs) - 1) : rs[k][2] < rs[k + 1][1]
ExplicitRanges == { rs \in SeqsUpTo(RangeSet, MaxChanges) : IsOrdered(rs) }

\* VisibleLines: Ranges(line_ranges) | DiffContext(context)
VisibleRanges(rs) == [kind |-> "Ranges", ranges |-> rs, context |-> 0]
VisibleDiff(c) == [kind |-> "DiffContext", ranges |-> <<>>, context |-> c]

\* LineChanges as the sequence of its keys in iteration order: any order of
\* distinct 1-based line numbers
ChangeMaps(maxLine, maxChanges) ==
  { lc \in SeqsUpTo(1..maxLine, maxChanges) :
      \A a, b \in 1..Len(lc) : a # b => lc[a] # lc[b] }
\* the maps of an input rendered alone
AloneChangeMaps == ChangeMaps(MaxLine, MaxChanges)

\* metadata.size and description.file_num_lines() of an opened input
MetaSet ==
  { [size |-> None, lines |-> None],
    [size |-> Some(SizeThreshold), lines |-> Some(WideLines + 1)],
    [size |-> Some(SizeThreshold + 1), lines |-> None],
    [size |-> Some(SizeThreshold + 1), lines |-> Some(WideLines)],
    [size |-> Some(SizeThreshold + 1), lines |-> Some(WideLines + 1)] }

(* ------------------------- pure helper functions ----------------------- *)
\* usize::saturating_sub
SaturatingSub(a, b) == IF a > b THEN a - b ELSE 0

\* ilog's log10 on u32: the integer part of the decimal logarithm
RECURSIVE Log10(_)
Log10(n) == IF n < 10 THEN 0 ELSE 1 + Log10(n \div 10)

\* VisibleLines::diff_mode
DiffMode(cfg) == cfg.visible_lines.kind = "DiffContext"

\* mutant: the existence test of a named file is forgotten
CallPagerAnyInput(ins) == Len(ins) > 0

\* the closure of inputs.iter().any(...): is there anything to page
CallPager(ins) ==
  \E i \in 1..Len(ins) :
    IF ins[i].kind = "OrdinaryFile" THEN ins[i].exists ELSE TRUE

\* mutant: only the automatic mode is downgraded
EffectivePagingModeAutoOnly(mode, ins) ==
  IF mode = "Auto" /\ ~CallPager(ins) THEN "Never" ELSE mode

\* the mode handed to OutputType::from_mode
EffectivePagingMode(mode, ins) ==
  IF mode # "Never" /\ ~CallPager(ins) THEN "Never" ELSE mode

\* OutputType::from_mode: what construction can yield for a mode
FromMode(mode) ==
  IF mode = "Never" THEN { "Stdout" } ELSE { "Pager", "Stdout", "Err" }

\* cfg!(windows): the build modelled is not a Windows build
Windows == FALSE

\* the identifier kept for loop detection; id is what Identifier::stdout()
\* gave: none, the file that is also the standard input, or another file
StdoutIdentifier(attached, id) == IF Windows \/ attached THEN "None" ELSE id

\* mutant: the live standard input is handed to every input
StdinForAlwaysLive(input) == "stdin"

\* the stream handed to print_input for an input
StdinFor(input) == IF input.kind = "StdIn" THEN "stdin" ELSE "empty"

\* whether print_input asks the diff collaborator for a change map
NeedsLineChanges(cfg) ==
  DiffMode(cfg) \/ (~cfg.loop_through /\ cfg.changes)

\* mutant: a file without a change map is skipped like one with an empty map
SkipsInputWithoutMap(diff_mode, kind, diff) ==
  IF kind = "OrdinaryFile"
  THEN diff_mode /\ (IF diff # None THEN diff[1] = <<>> ELSE TRUE)
  ELSE diff_mode

\* the early returns of print_input: diff is the map or None
SkipsInput(diff_mode, kind, diff) ==
  IF kind = "OrdinaryFile"
  THEN diff_mode /\ (IF diff # None THEN diff[1] = <<>> ELSE FALSE)
  ELSE diff_mode

\* mutant: a skipped input is reported as failed
SkipResultErr == "Err"

\* what print_input returns for an input it skips: return Ok(())
SkipResult == "Ok"

\* file_num_lines().unwrap() is reached with no line count: the thread panics
WidthPanics(sz, n) == sz # None /\ sz[1] > SizeThreshold /\ n = None

\* config.line_number_width, where computing it does not panic.  The line
\* counts of MetaSet are below 2^32, where the cast to u32 keeps the value
LineNumberWidth(sz, n) ==
  IF sz = None THEN TAB_WIDTH
  ELSE IF sz[1] > SizeThreshold
       THEN IF n[1] > WideLines THEN Log10(n[1]) + 1 ELSE TAB_WIDTH
       ELSE TAB_WIDTH

\* the printer variant chosen for an input
PrinterFor(cfg) == IF cfg.loop_through THEN "Simple" ELSE "Interactive"

\* mutant: the header is printed only where the header style is enabled
HeaderNeededByStyleOnly(fle, header) == header

\* the condition of the print_header call
HeaderNeeded(fle, header) == ~fle \/ header

\* mutant: the lower bound is clamped to line 1
DiffRangeFromOne(line, context) == <<Max(1, line - context), line + context>>

\* the range pushed for one changed line
DiffRange(line, context) == <<SaturatingSub(line, context), line + context>>

\* LineRanges::from: the ranges are kept as collected
LineRangesFrom(rs) == rs

\* the match on self.config.visible_lines in print_file
ResolveRanges(cfg, lc) ==
  IF cfg.visible_lines.kind = "Ranges"
  THEN cfg.visible_lines.ranges
  ELSE LineRangesFrom(
         IF lc = None THEN <<>>
         ELSE [k \in 1..Len(lc[1]) |->
                 DiffRange(lc[1][k], cfg.visible_lines.context)])

\* LineRanges::check: the cursor moves past every range that ends before line
RECURSIVE Advance(_, _, _)
Advance(rs, c, line) ==
  IF c <= Len(rs) /\ rs[c][2] < line THEN Advance(rs, c + 1, line) ELSE c

Check(rs, c, line) ==
  LET c2 == Advance(rs, c, line)
  IN [cursor |-> c2,
      result |-> IF c2 > Len(rs) THEN "AfterLastRange"
                 ELSE IF line < rs[c2][1] THEN "BeforeOrBetweenRanges"
                 ELSE "InRange"]

\* mutant: first_range is not consulted, so the first block gets a snip too
SnipStepWithoutFirstRange(style_snip, fr, mr) ==
  IF style_snip /\ ~mr
  THEN [first_range |-> fr, mid_range |-> TRUE, snip |-> TRUE]
  ELSE [first_range |-> fr, mid_range |-> mr, snip |-> FALSE]

\* the InRange arm's bookkeeping: the new first_range and mid_range, and
\* whether print_snip is called
SnipStep(style_snip, fr, mr) ==
  IF ~style_snip THEN [first_range |-> fr, mid_range |-> mr, snip |-> FALSE]
  ELSE IF fr THEN [first_range |-> FALSE, mid_range |-> TRUE, snip |-> FALSE]
  ELSE IF ~mr THEN [first_range |-> fr, mid_range |-> TRUE, snip |-> TRUE]
  ELSE [first_range |-> fr, mid_range |-> mr, snip |-> FALSE]

\* mutant: the loop is left at the first line that is not in a range
StopsStreamOutsideRange(res) == res # "InRange"

\* mutant: the AfterLastRange arm does not leave the loop
StopsStreamNever(res) == FALSE

\* the arm of the match that leaves the loop
StopsStream(res) == res = "AfterLastRange"

\* mutant: errors are always written to the standard error stream
ErrorWriterStderr(attached) == "stderr"

\* the writer handed to the error handler
ErrorWriter(attached) == IF attached THEN "writer" ELSE "stderr"

\* a call received by the printer
Call(op, flag, n) == [op |-> op, flag |-> flag, n |-> n]

\* the run's log after input.open is called for input i
Opened(l, i) == Append(l, <<"open", i>>)

\* the run's log after a call to the printer of input i: consecutive calls to
\* the same printer are one entry
Rendered(l, i) ==
  IF l # <<>> /\ l[Len(l)] = <<"render", i>> THEN l ELSE Append(l, <<"render", i>>)

\* the run's log after handle_error is called for the error of input i
Handled(l, i) == Append(l, <<"handle", i>>)

\* mutant: the line counter is not advanced
LineNumberKept(n) == n

\* line_number += 1
NextLineNumber(n) == n + 1

(* ------------------------------ Init ----------------------------------- *)
\* the per-input locals before print_input is entered
NoInput ==
  /\ stdin = "none" /\ opened = FALSE /\ first_line_empty = FALSE
  /\ size = None /\ file_num_lines = None /\ line_changes = None
  /\ line_number_width = 0 /\ printer = "none" /\ add_header_padding = FALSE
  /\ result = "none" /\ skipped = FALSE
  /\ line_ranges = <<>> /\ cursor = 1 /\ line_number = 1
  /\ first_range = TRUE /\ mid_range = FALSE /\ last_check = "none"
  /\ stopped = FALSE
  /\ reads = 0 /\ lines_read = 0 /\ calls = <<>>

ResetInput ==
  /\ stdin' = "none" /\ opened' = FALSE /\ first_line_empty' = FALSE
  /\ size' = None /\ file_num_lines' = None /\ line_changes' = None
  /\ line_number_width' = 0 /\ printer' = "none" /\ add_header_padding' = FALSE
  /\ result' = "none" /\ skipped' = FALSE
  /\ line_ranges' = <<>> /\ cursor' = 1 /\ line_number' = 1
  /\ first_range' = TRUE /\ mid_range' = FALSE /\ last_check' = "none"
  /\ stopped' = FALSE
  /\ reads' = 0 /\ lines_read' = 0 /\ calls' = <<>>

PagingModes == { "Always", "Auto", "Never" }

\* the state at the entry of run_with_error_handler, for a set of
\* configurations and of input lists
InitWith(configs, inputLists) ==
  /\ config \in configs
  /\ inputs \in inputLists
  /\ pc = "start"
  /\ paging_mode = "unset" /\ output_type = "none"
  /\ attached_to_pager = FALSE /\ stdout_identifier = "None"
  /\ writer = "none"
  /\ no_errors = TRUE /\ index = 1
  /\ outcomes = <<>> /\ handled = <<>> /\ ret = "none"
  /\ log = <<>>
  /\ NoInput

(* ----------------------------- actions --------------------------------- *)
\* is_first of the loop of run_with_error_handler (index is 1-based here)
IsFirst(i) == i = 1

\* mutant: the loop stays at the input it has just processed
SameIndex(i) == i

\* the loop's step to the next element of inputs.into_iter().enumerate()
NextIndex(i) == i + 1

\* what Input::open can report about an input's size and line count
MetaFor(input) ==
  IF input.kind = "OrdinaryFile" THEN MetaSet
  ELSE { [size |-> None, lines |-> None] }

\* the bound on an input's lines: in a batch of one, or of several
LineBound == IF Len(inputs) <= 1 THEN MaxLine ELSE BatchLine

\* what get_git_diff can return where print_input calls it: no map, or a map
\* of changed lines.  Every map within the bounds is tried where the ranges of
\* an input rendered alone are resolved from it; for an input that is one of
\* several, and outside diff mode, where only the printer reads the map, one
\* map of each shape stands for all
DiffResults(cfg, input) ==
  IF NeedsLineChanges(cfg) /\ input.kind = "OrdinaryFile"
  THEN { None }
       \cup { Some(lc) :
                lc \in (IF DiffMode(cfg) /\ Len(inputs) <= 1
                        THEN AloneChangeMaps
                        ELSE { <<>>, <<1>> }) }
  ELSE { None }

\* what Identifier::stdout() can give.  The identifier is compared with the
\* standard input's only: for a list without a standard-stream input one value
\* stands for all (Input::open may fail there whatever the identifier is)
IdentifierResults(ins) ==
  IF \E i \in 1..Len(ins) : ins[i].kind = "StdIn"
  THEN { "None", "SameAsStdin", "Other" }
  ELSE { "Other" }

\* print_input returns res
Return(res) == result' = res /\ pc' = "result"

\* the paging block and OutputType::from_mode(...)?
SelectDestination ==
  /\ pc = "start"
  /\ paging_mode' = EffectivePagingMode(config.paging_mode, inputs)
  /\ \E r \in FromMode(paging_mode') :
       IF r = "Err"
       THEN ret' = "Err" /\ pc' = "done" /\ UNCHANGED output_type
       ELSE output_type' = r /\ pc' = "writer" /\ UNCHANGED ret
  /\ UNCHANGED <<config, inputs, attached_to_pager, stdout_identifier, writer,
                 no_errors, index, outcomes, handled, inputVars, streamVars,
                 log>>

\* mutant: the error of output_type.handle() is not returned, the loop over
\* the inputs is entered without a writer
GetWriterUnchecked ==
  /\ pc = "writer"
  /\ attached_to_pager' = (output_type = "Pager")
  /\ \E id \in IdentifierResults(inputs) :
       stdout_identifier' = StdoutIdentifier(attached_to_pager', id)
  /\ \E ok \in (IF output_type = "Pager" THEN BOOLEAN ELSE { TRUE }) :
       IF ok THEN writer' = "writer" /\ pc' = "loop" /\ UNCHANGED ret
       ELSE pc' = "loop" /\ UNCHANGED <<writer, ret>>
  /\ UNCHANGED <<config, inputs, paging_mode, output_type, no_errors,
                 index, outcomes, handled, inputVars, streamVars, log>>

\* is_pager, the stdout identifier and output_type.handle()?
GetWriter ==
  /\ pc = "writer"
  /\ attached_to_pager' = (output_type = "Pager")
  /\ \E id \in IdentifierResults(inputs) :
       stdout_identifier' = StdoutIdentifier(attached_to_pager', id)
  /\ \E ok \in (IF output_type = "Pager" THEN BOOLEAN ELSE { TRUE }) :
       IF ok THEN writer' = "writer" /\ pc' = "loop" /\ UNCHANGED ret
       ELSE ret' = "Err" /\ pc' = "done" /\ UNCHANGED writer
  /\ UNCHANGED <<config, inputs, paging_mode, output_type, no_errors,
                 index, outcomes, handled, inputVars, streamVars, log>>

\* the loop body up to input.open(stdin, stdout_identifier)?
OpenInput ==
  /\ pc = "loop" /\ index <= Len(inputs)
  /\ stdin' = StdinFor(inputs[index])
  /\ \E ok \in BOOLEAN :
       IF ok
       THEN /\ opened' = TRUE
            /\ \E fle \in BOOLEAN : first_line_empty' = fle
            /\ \E meta \in MetaFor(inputs[index]) :
                 size' = meta.size /\ file_num_lines' = meta.lines
            /\ pc' = "diff" /\ UNCHANGED result
       ELSE /\ Return("Err")
            /\ UNCHANGED <<opened, first_line_empty, size, file_num_lines>>
  /\ log' = Opened(log, index)
  /\ UNCHANGED <<runVars, line_changes, line_number_width, printer,
                 add_header_padding, skipped, streamVars>>

\* let line_changes = ...: the change map, and the early returns of diff mode
GetLineChanges ==
  /\ pc = "diff"
  /\ \E diff \in DiffResults(config, inputs[index]) :
       /\ line_changes' = diff
       /\ IF /\ NeedsLineChanges(config)
             /\ SkipsInput(DiffMode(config), inputs[index].kind, diff)
          THEN skipped' = TRUE /\ Return(SkipResult)
          ELSE pc' = "width" /\ UNCHANGED <<skipped, result>>
  /\ UNCHANGED <<runVars, stdin, opened, first_line_empty, size,
                 file_num_lines, line_number_width, printer,
                 add_header_padding, streamVars, log>>

\* config.line_number_width = match opened_input.metadata.size { ... }
ComputeWidth ==
  /\ pc = "width"
  /\ IF WidthPanics(size, file_num_lines)
     THEN pc' = "panic" /\ ret' = "panic" /\ UNCHANGED line_number_width
     ELSE /\ line_number_width' = LineNumberWidth(size, file_num_lines)
          /\ pc' = "printer" /\ UNCHANGED ret
  /\ UNCHANGED <<config, inputs, paging_mode, output_type,
                 attached_to_pager, stdout_identifier, writer, no_errors, index,
                 outcomes, handled, stdin, opened, first_line_empty, size,
                 file_num_lines, line_changes, printer, add_header_padding,
                 result, skipped, streamVars, log>>

\* the printer's construction and the call of print_file
NewPrinter ==
  /\ pc = "printer"
  /\ \E ok \in (IF PrinterFor(config) = "Interactive" THEN BOOLEAN ELSE { TRUE }) :
       IF ok
       THEN /\ printer' = PrinterFor(config)
            /\ add_header_padding' = ~IsFirst(index)
            /\ pc' = "header" /\ UNCHANGED result
       ELSE Return("Err") /\ UNCHANGED <<printer, add_header_padding>>
  \* the configuration copy and the metadata belong to the printer from here
  \* on: the controller does not read them again
  /\ size' = None /\ file_num_lines' = None /\ line_number_width' = 0
  /\ UNCHANGED <<runVars, stdin, opened, first_line_empty, line_changes, skipped,
                 streamVars, log>>

\* print_file: the print_header call and its condition
PrintHeader ==
  /\ pc = "header"
  /\ IF HeaderNeeded(first_line_empty, config.header)
     THEN /\ calls' = Append(calls, Call("print_header", add_header_padding, 0))
          /\ log' = Rendered(log, index)
          /\ \E ok \in BOOLEAN :
               IF ok
               THEN /\ pc' = IF first_line_empty THEN "footer" ELSE "ranges"
                    /\ UNCHANGED result
               ELSE Return("Err")
     ELSE /\ pc' = IF first_line_empty THEN "footer" ELSE "ranges"
          /\ UNCHANGED <<calls, result, log>>
  /\ UNCHANGED <<runVars, stdin, opened, first_line_empty, size,
                 file_num_lines, line_changes, line_number_width, printer,
                 add_header_padding, skipped, line_ranges, cursor, line_number,
                 first_range, mid_range, last_check, stopped, reads,
                 lines_read>>

\* print_file: the visible lines resolved to LineRanges, and the locals of
\* print_file_ranges
ResolveLineRanges ==
  /\ pc = "ranges"
  /\ line_ranges' = ResolveRanges(config, line_changes)
  /\ cursor' = 1 /\ line_number' = 1
  /\ first_range' = TRUE /\ mid_range' = FALSE
  /\ pc' = "stream"
  /\ UNCHANGED <<runVars, inputVars, last_check, stopped, reads, lines_read,
                 calls, log>>

\* one turn of the while loop of print_file_ranges
ReadLine ==
  /\ pc = "stream"
  /\ reads' = reads + 1
  /\ \E r \in { "line", "eof", "err" } :
       \* the buffered first line is always there; LineBound bounds the input
       /\ line_number = 1 => r = "line"
       /\ r = "line" => line_number <= LineBound
       /\ lines_read' = IF r = "line" THEN lines_read + 1 ELSE lines_read
       /\ IF r = "err"
          THEN /\ Return("Err")
               /\ UNCHANGED <<cursor, line_number, first_range, mid_range,
                              last_check, stopped, calls>>
          ELSE IF r = "eof"
          THEN /\ pc' = "footer"
               /\ UNCHANGED <<cursor, line_number, first_range, mid_range,
                              last_check, stopped, calls, result>>
          ELSE LET chk == Check(line_ranges, cursor, line_number)
                   step == SnipStep(config.snip, first_range, mid_range)
               IN /\ cursor' = chk.cursor
                  /\ last_check' = chk.result
                  /\ stopped' = StopsStream(chk.result)
                  /\ IF StopsStream(chk.result)
                     THEN /\ pc' = "footer"
                          /\ UNCHANGED <<line_number, first_range, mid_range,
                                         calls, result>>
                     ELSE IF chk.result = "BeforeOrBetweenRanges"
                     THEN /\ calls' = Append(calls,
                                        Call("print_line", TRUE, line_number))
                          /\ UNCHANGED first_range
                          /\ \E ok \in BOOLEAN :
                               IF ok
                               THEN /\ mid_range' = FALSE
                                    /\ line_number' = NextLineNumber(line_number)
                                    /\ UNCHANGED <<pc, result>>
                               ELSE /\ Return("Err")
                                    /\ UNCHANGED <<mid_range, line_number>>
                     ELSE /\ first_range' = step.first_range
                          /\ mid_range' = step.mid_range
                          /\ \E snipOk \in (IF step.snip THEN BOOLEAN ELSE { TRUE }),
                                lineOk \in BOOLEAN :
                               IF ~snipOk
                               THEN /\ lineOk
                                    /\ calls' = Append(calls,
                                                  Call("print_snip", FALSE, 0))
                                    /\ Return("Err")
                                    /\ UNCHANGED line_number
                               ELSE /\ calls' =
                                         (IF step.snip
                                          THEN Append(calls,
                                                 Call("print_snip", FALSE, 0))
                                          ELSE calls)
                                         \o <<Call("print_line", FALSE, line_number)>>
                                    /\ IF lineOk
                                       THEN /\ line_number' = NextLineNumber(line_number)
                                            /\ UNCHANGED <<pc, result>>
                                       ELSE /\ Return("Err")
                                            /\ UNCHANGED line_number
  /\ log' = IF calls' # calls THEN Rendered(log, index) ELSE log
  /\ UNCHANGED <<runVars, stdin, opened, first_line_empty, size,
                 file_num_lines, line_changes, line_number_width, printer,
                 add_header_padding, skipped, line_ranges>>

\* mutant: the footer call is made inside the block of a non-empty input
PrintFooterOfNonEmpty ==
  /\ pc = "footer"
  /\ IF first_line_empty
     THEN Return("Ok") /\ UNCHANGED <<calls, log>>
     ELSE /\ calls' = Append(calls, Call("print_footer", FALSE, 0))
          /\ log' = Rendered(log, index)
          /\ \E ok \in BOOLEAN : Return(IF ok THEN "Ok" ELSE "Err")
  /\ UNCHANGED <<runVars, stdin, opened, first_line_empty, size,
                 file_num_lines, line_changes, line_number_width, printer,
                 add_header_padding, skipped, line_ranges, cursor, line_number,
                 first_range, mid_range, last_check, stopped, reads,
                 lines_read>>

\* print_file: printer.print_footer(writer, input)? and Ok(())
PrintFooter ==
  /\ pc = "footer"
  /\ calls' = Append(calls, Call("print_footer", FALSE, 0))
  /\ log' = Rendered(log, index)
  /\ \E ok \in BOOLEAN : Return(IF ok THEN "Ok" ELSE "Err")
  /\ UNCHANGED <<runVars, stdin, opened, first_line_empty, size,
                 file_num_lines, line_changes, line_number_width, printer,
                 add_header_padding, skipped, line_ranges, cursor, line_number,
                 first_range, mid_range, last_check, stopped, reads,
                 lines_read>>

\* the end of the loop body: if let Err(error) = result { ... }
HandleResult ==
  /\ pc = "result"
  /\ outcomes' = Append(outcomes,
                   IF skipped THEN "skipped"
                   ELSE IF result = "Err" THEN "err" ELSE "ok")
  /\ IF result = "Err"
     THEN /\ handled' = Append(handled, <<index, ErrorWriter(attached_to_pager)>>)
          /\ log' = Handled(log, index)
          /\ no_errors' = FALSE
     ELSE UNCHANGED <<handled, no_errors, log>>
  /\ index' = NextIndex(index)
  /\ pc' = "loop"
  /\ ResetInput
  /\ UNCHANGED <<config, inputs, paging_mode, output_type,
                 attached_to_pager, stdout_identifier, writer, ret>>

\* Ok(no_errors)
Finish ==
  /\ pc = "loop" /\ index > Len(inputs)
  /\ ret' = IF no_errors THEN "Ok(true)" ELSE "Ok(false)"
  /\ pc' = "done"
  /\ UNCHANGED <<config, inputs, paging_mode, output_type,
                 attached_to_pager, stdout_identifier, writer, no_errors, index,
                 outcomes, handled, inputVars, streamVars, log>>

Next ==
  \/ SelectDestination
  \/ GetWriter
  \/ OpenInput
  \/ GetLineChanges
  \/ ComputeWidth
  \/ NewPrinter
  \/ PrintHeader
  \/ ResolveLineRanges
  \/ ReadLine
  \/ PrintFooter
  \/ HandleResult
  \/ Finish

(* --------------------------- specifications ---------------------------- *)
Styles ==
  [loop_through : BOOLEAN, header : BOOLEAN, snip : BOOLEAN, changes : BOOLEAN]

ConfigOf(mode, style, visible) ==
  [paging_mode |-> mode, visible_lines |-> visible,
   loop_through |-> style.loop_through, header |-> style.header,
   snip |-> style.snip, changes |-> style.changes]

AllVisible ==
  { VisibleRanges(rs) : rs \in ExplicitRanges }
  \cup { VisibleDiff(c) : c \in 0..MaxContext }

\* one existing file rendered alone, without paging: every visible-lines
\* setting under every style without the changes component, and one setting
\* of each kind with it
StreamConfigs ==
  { ConfigOf("Never", st, v) : st \in { x \in Styles : ~x.changes }, v \in AllVisible }
ChangesConfigs ==
  { ConfigOf("Never", st, v) : st \in { x \in Styles : x.changes },
                               v \in { VisibleRanges(<<<<1, 1>>>>), VisibleDiff(0) } }
StreamInputs == { <<[kind |-> "OrdinaryFile", exists |-> TRUE]>> }

\* every list of inputs under every paging mode, with either printer, for one
\* setting of explicit ranges and one of diff context
BatchStyles == { st \in Styles : ~st.header /\ ~st.snip /\ ~st.changes }
BatchVisible == { VisibleRanges(<<<<1, 1>>>>), VisibleDiff(1) }
BatchConfigs ==
  { ConfigOf(m, st, v) : m \in PagingModes, st \in BatchStyles, v \in BatchVisible }
BatchInputs == SeqsUpTo(InputSet, MaxInputs)

Init ==
  \/ InitWith(StreamConfigs \cup ChangesConfigs, StreamInputs)
  \/ InitWith(BatchConfigs, BatchInputs)

Spec == Init /\ [][Next]_vars

(* ------------------------------ claims --------------------------------- *)
\* the call has ended: by returning, or by a panic that unwinds out of it
Ended == pc \in { "done", "panic" }

\* the outcomes of the inputs finished so far hold no error
AllRendered == \A i \in 1..Len(outcomes) : outcomes[i] # "err"

\* how often the error handler was invoked for input i
HandledCount(i) == Cardinality({ k \in 1..Len(handled) : handled[k][1] = i })

\* C1: once the destination is constructed and its writer obtained, the call
\* returns Ok(b) for every list of inputs, b being true iff no input's
\* print_input returned an error; it never ends in another way.
C1_ReturnsOkOfNoErrors ==
  (writer # "none" /\ Ended) =>
    /\ Len(outcomes) = Len(inputs)
    /\ ret = IF AllRendered THEN "Ok(true)" ELSE "Ok(false)"

\* C2: every input of the list is attempted whatever inputs fail before it,
\* and the handler is invoked exactly once for each failing input and never
\* for an input that succeeded.
C2_EveryInputAttempted ==
  writer # "none" =>
    /\ \A i \in 1..Len(outcomes) :
         HandledCount(i) = IF outcomes[i] = "err" THEN 1 ELSE 0
    /\ Ended => Len(outcomes) = Len(inputs)

\* what C1 and C2 say holds in every run in which the width computation does
\* not panic
ReturnsOkUnlessPanic == pc # "panic" => C1_ReturnsOkOfNoErrors
EveryInputAttemptedUnlessPanic == pc # "panic" => C2_EveryInputAttempted

\* no input is an existing file or a standard-stream input
NothingToPage(ins) ==
  \A i \in 1..Len(ins) :
    ~(ins[i].kind = "StdIn" \/ (ins[i].kind = "OrdinaryFile" /\ ins[i].exists))

\* C3: with paging mode auto and no input that is an existing file or a
\* standard stream (the empty list included), the mode handed to destination
\* construction is never, and no pager is constructed.
C3_AutoWithNothingToPage ==
  (paging_mode # "unset" /\ config.paging_mode = "Auto" /\ NothingToPage(inputs))
    => (paging_mode = "Never" /\ output_type # "Pager")

C3_Witness ==
  /\ config.paging_mode = "Auto" /\ NothingToPage(inputs) /\ Len(inputs) > 0
  /\ paging_mode = "Never" /\ output_type = "Stdout"

\* the input being processed is a standard-stream input whose identifier is
\* the destination's
StdinIsDestination ==
  /\ stdin # "none"
  /\ inputs[index].kind = "StdIn"
  /\ stdout_identifier = "SameAsStdin"

\* C4 as stated: a standard-stream input whose identifier equals the
\* destination's is given an empty stand-in stream instead of the live
\* standard input, and no error is reported for it.
C4_StandInOnMatch ==
  StdinIsDestination => (stdin = "empty" /\ result # "Err")

\* C4 as amended: the empty stand-in is handed exactly to the inputs that are
\* not standard-stream inputs; a standard-stream input is handed the live
\* standard input, also when its identifier equals the destination's, and the
\* identifier handed to open is absent when the destination is a pager.
C4_StandInForOtherInputs ==
  /\ stdin # "none" =>
       stdin = IF inputs[index].kind = "StdIn" THEN "stdin" ELSE "empty"
  /\ attached_to_pager => stdout_identifier = "None"

C4_Witness == StdinIsDestination /\ opened /\ stdin = "stdin"

\* the ranges of the current input are resolved from its change map
DiffRangesResolved ==
  /\ DiffMode(config)
  /\ pc \in { "stream", "footer", "result" }
  /\ opened /\ ~skipped /\ ~first_line_empty /\ printer # "none"
  /\ line_changes # None
  /\ Len(line_ranges) = Len(line_changes[1])

\* the line numbers from 1 on that a range covers
LinesOf(r) == { n \in 1..(MaxLine + MaxContext + 1) : r[1] <= n /\ n <= r[2] }

\* C5 as stated: the range resolved for a changed line L with radius R is
\* exactly [max(1, L-R), L+R]; its lower bound is never below 1.
C5_LowerBoundAtLeastOne ==
  DiffRangesResolved =>
    \A k \in 1..Len(line_ranges) :
      line_ranges[k] = <<Max(1, line_changes[1][k] - config.visible_lines.context),
                         line_changes[1][k] + config.visible_lines.context>>

\* C5 as amended: the range resolved for a changed line L with radius R is
\* [max(0, L-R), L+R]: the lower bound saturates at 0, and the line numbers
\* from 1 on that the range covers are those of max(1, L-R)..L+R.
C5_LowerBoundSaturatesAtZero ==
  DiffRangesResolved =>
    \A k \in 1..Len(line_ranges) :
      LET L == line_changes[1][k]
          R == config.visible_lines.context
      IN /\ line_ranges[k] = <<Max(0, L - R), L + R>>
         /\ LinesOf(line_ranges[k]) = Max(1, L - R)..(L + R)

C5_Witness ==
  /\ DiffRangesResolved
  /\ \E k \in 1..Len(line_ranges) :
       /\ line_changes[1][k] <= config.visible_lines.context
       /\ line_ranges[k][1] = 0

\* the k-th call received by the current input's printer
InRangeAt(k) == calls[k].op = "print_line" /\ ~calls[k].flag
SnipAt(k) == calls[k].op = "print_snip"
CallCount(op) == Cardinality({ k \in 1..Len(calls) : calls[k].op = op })

\* the last print_line call before the k-th call, 0 if there is none
PrevLine(k) ==
  LET S == { j \in 1..(k - 1) : calls[j].op = "print_line" }
  IN IF S = {} THEN 0 ELSE CHOOSE j \in S : \A i \in S : i <= j

\* the k-th call is the first in-range line of a visible block that is not
\* the first visible block of the input
StartsLaterBlock(k) ==
  /\ InRangeAt(k)
  /\ PrevLine(k) # 0 /\ calls[PrevLine(k)].flag
  /\ \E j \in 1..(k - 1) : InRangeAt(j)

\* a snip stands directly before the first in-range line of every visible
\* block but the first, and before no other in-range line
SnipBeforeLaterBlocks ==
  \A k \in 1..Len(calls) :
    InRangeAt(k) => ((k > 1 /\ SnipAt(k - 1)) <=> StartsLaterBlock(k))

\* C6 as stated: with separators enabled print_snip is called exactly once
\* directly before the first in-range line of every visible block but the
\* first, and nowhere else: every snip is directly followed by an in-range
\* print_line.
C6_SnipOnlyBeforeLaterBlocks ==
  config.snip =>
    /\ SnipBeforeLaterBlocks
    /\ \A k \in 1..Len(calls) :
         SnipAt(k) => (k < Len(calls) /\ InRangeAt(k + 1))

\* C6 as amended: as stated, except that a print_snip call that returns an
\* error is the last call of the input: print_file_ranges returns the error
\* and the in-range line is not printed.
C6_SnipBeforeLaterBlocksUnlessSnipFails ==
  config.snip =>
    /\ SnipBeforeLaterBlocks
    /\ \A k \in 1..Len(calls) :
         SnipAt(k) =>
           \/ k < Len(calls) /\ InRangeAt(k + 1)
           \/ k = Len(calls) /\ pc = "result" /\ result = "Err"

C6_Witness ==
  /\ config.snip /\ line_ranges = <<<<2, 2>>, <<5, 6>>>>
  /\ CallCount("print_snip") = 1
  /\ \E k \in 1..Len(calls) :
       /\ calls[k] = Call("print_line", FALSE, 2)
       /\ k + 5 <= Len(calls)
       /\ SnipAt(k + 3)
       /\ calls[k + 4] = Call("print_line", FALSE, 5)
       /\ calls[k + 5] = Call("print_line", FALSE, 6)

\* the positions of print_input after the change map is settled
AfterDiff ==
  pc \in { "width", "printer", "header", "ranges", "stream", "footer", "result" }

\* the change map of the current input is empty or unavailable
MapEmptyOrUnavailable ==
  \/ inputs[index].kind # "OrdinaryFile"
  \/ line_changes = None
  \/ line_changes = Some(<<>>)

\* C7 as stated: in diff mode an opened input whose change map is empty or
\* unavailable, or that is not a file, gets no renderer call at all.
C7_SkipEmptyOrUnavailable ==
  (DiffMode(config) /\ opened /\ AfterDiff /\ MapEmptyOrUnavailable)
    => calls = <<>>

\* C7 as amended: in diff mode an opened input is skipped, with no renderer
\* constructed and no renderer call, exactly when it is not a file or its
\* change map is empty; a file without a change map is not skipped.  Nothing
\* is skipped outside diff mode.
C7_SkipEmptyMapOnly ==
  /\ (DiffMode(config) /\ opened /\ AfterDiff) =>
       (skipped <=> (\/ inputs[index].kind # "OrdinaryFile"
                     \/ line_changes = Some(<<>>)))
  /\ skipped =>
       /\ DiffMode(config)
       /\ calls = <<>> /\ printer = "none" /\ reads = 0
       /\ pc = "result" /\ result = "Ok"

C7_Witness ==
  /\ skipped /\ inputs[index].kind = "OrdinaryFile"
  /\ line_changes = Some(<<>>)

\* line numbers beyond every line and every range of the model
Horizon == MaxLine + MaxContext + 2

\* line n lies inside one of the resolved ranges
InSomeRange(n) ==
  \E k \in 1..Len(line_ranges) :
    line_ranges[k][1] <= n /\ n <= line_ranges[k][2]

\* C8: once check returns AfterLastRange it returns it for every larger line
\* number; for empty ranges the first check returns it; and the loop, which
\* stops at the first AfterLastRange, leaves no line behind that lies in a
\* range.
C8_AfterLastRangeIsFinal ==
  /\ last_check = "AfterLastRange" =>
       \A m \in line_number..Horizon :
         LET c1 == Check(line_ranges, cursor, m)
         IN /\ c1.result = "AfterLastRange"
            /\ \A m2 \in (m + 1)..Horizon :
                 Check(line_ranges, c1.cursor, m2).result = "AfterLastRange"
  /\ (last_check # "none" /\ line_ranges = <<>>) => last_check = "AfterLastRange"
  /\ stopped =>
       /\ last_check = "AfterLastRange"
       /\ \A n \in line_number..Horizon : ~InSomeRange(n)

C8_Witness ==
  /\ stopped /\ pc = "footer"
  /\ line_ranges # <<>> /\ line_number < LineBound
  /\ \E k \in 1..Len(calls) : InRangeAt(k)

\* C9 as stated, for an input whose streaming loop was entered: every opened
\* input that is not skipped gets print_footer exactly once, as its last
\* renderer call, whatever happened in the loop.
C9_FooterAlways ==
  (pc = "result" /\ opened /\ ~skipped /\ reads >= 1) =>
    /\ CallCount("print_footer") = 1
    /\ calls[Len(calls)].op = "print_footer"

\* C9 as amended: print_footer is invoked at most once per input and only as
\* its last renderer call; it is invoked exactly once whenever print_input
\* returns Ok for an opened input that is not skipped (no visible line, an
\* empty input, the loop left early); when an earlier step returns an error,
\* print_input returns it at once and there is no footer.
C9_FooterUnlessError ==
  /\ CallCount("print_footer") <= 1
  /\ CallCount("print_footer") = 1 =>
       (calls[Len(calls)].op = "print_footer" /\ pc = "result")
  /\ (pc = "result" /\ opened /\ ~skipped /\ result = "Ok") =>
       CallCount("print_footer") = 1

C9_Witness ==
  /\ pc = "result" /\ result = "Ok" /\ stopped
  /\ CallCount("print_line") = 0
  /\ calls[Len(calls)].op = "print_footer"

\* what C10 says of the print_header call of the current input
HeaderAsNeeded ==
  /\ CallCount("print_header") <= 1
  /\ \A k \in 1..Len(calls) : calls[k].op = "print_header" => k = 1
  /\ CallCount("print_header") = 1 <=> (~first_line_empty \/ config.header)
  /\ CallCount("print_header") = 1 => (calls[1].flag <=> index > 1)

\* C10 as stated: for every opened input that is not skipped, print_header is
\* invoked at most once and first, iff the input is non-empty or the header
\* style is enabled, with add_padding true iff the input is not the first.
C10_HeaderOfEveryOpenedInput ==
  (pc = "result" /\ opened /\ ~skipped) => HeaderAsNeeded

\* C10 as amended: the same, for every opened input that is not skipped and
\* whose renderer was constructed; without a renderer there is no header.
C10_HeaderOfEveryRenderedInput ==
  /\ (pc \in { "ranges", "stream", "footer", "result" } /\ opened /\ ~skipped
        /\ printer # "none") => HeaderAsNeeded
  /\ printer = "none" => calls = <<>>

C10_Witness ==
  /\ index = 2 /\ outcomes = <<"err">>
  /\ pc = "stream" /\ ~config.header
  /\ calls = <<Call("print_header", TRUE, 0)>>

\* the classifier's cursor when line n is checked, the lines from 1 on having
\* been checked in turn, and the classification of line n
RECURSIVE CursorAt(_, _)
CursorAt(rs, n) ==
  IF n <= 1 THEN 1 ELSE Check(rs, CursorAt(rs, n - 1), n - 1).cursor
ClassOf(rs, n) == Check(rs, CursorAt(rs, n), n).result

\* the classifications of the lines n..last checked in turn from cursor c
RECURSIVE ClassSeq(_, _, _, _)
ClassSeq(rs, c, n, last) ==
  IF n > last THEN <<>>
  ELSE LET chk == Check(rs, c, n)
       IN <<chk.result>> \o ClassSeq(rs, chk.cursor, n + 1, last)

\* the print_line calls received by the current input's printer, in order
PrintLines == SelectSeq(calls, LAMBDA c : c.op = "print_line")

\* the print_line calls pl are numbered 1, 2, ..., k, and each carries the
\* out_of_range flag of its line's classification in cls
LinesNumberedAndFlagged(pl, cls) ==
  /\ Len(pl) <= Len(cls)
  /\ \A k \in 1..Len(pl) :
       /\ pl[k].n = k
       /\ cls[k] # "AfterLastRange"
       /\ pl[k].flag <=> cls[k] = "BeforeOrBetweenRanges"

\* line n was forwarded to print_line exactly once
ForwardedOnce(pl, n) ==
  Cardinality({ k \in 1..Len(pl) : pl[k].n = n }) = 1

\* C11 as stated: every line read that is not classified AfterLastRange is
\* forwarded to print_line exactly once, flagged out of range iff it is
\* BeforeOrBetweenRanges, and the line numbers passed are 1, 2, ..., k.
C11_EveryLineForwarded ==
  lines_read >= 1 =>
    LET pl == PrintLines
        cls == ClassSeq(line_ranges, 1, 1, lines_read)
    IN /\ LinesNumberedAndFlagged(pl, cls)
       /\ \A n \in 1..lines_read :
            cls[n] # "AfterLastRange" => ForwardedOnce(pl, n)

\* the print_snip call made for the line read last returned an error
SnipFailedAt(n) ==
  /\ n = lines_read /\ pc = "result" /\ result = "Err"
  /\ calls # <<>> /\ calls[Len(calls)].op = "print_snip"

\* C11 as amended: as stated, except that an in-range line whose print_snip
\* call returns an error is not forwarded: it is then the last line read and
\* print_input returns the error.
C11_EveryLineForwardedUnlessSnipFails ==
  /\ lines_read = 0 => PrintLines = <<>>
  /\ lines_read >= 1 =>
       LET pl == PrintLines
           cls == ClassSeq(line_ranges, 1, 1, lines_read)
       IN /\ LinesNumberedAndFlagged(pl, cls)
          /\ \A n \in 1..lines_read :
               cls[n] # "AfterLastRange" =>
                 IF SnipFailedAt(n)
                 THEN ~ForwardedOnce(pl, n) /\ Len(pl) = n - 1
                 ELSE ForwardedOnce(pl, n)

C11_Witness ==
  /\ pc = "footer" /\ ~stopped /\ lines_read = 4 /\ Len(PrintLines) = 4
  /\ PrintLines[1].flag /\ ~PrintLines[2].flag
  /\ PrintLines[3].flag /\ ~PrintLines[4].flag

\* C12: as soon as a line is classified AfterLastRange the streaming of the
\* input stops: the line is not passed to print_line and no read_line,
\* print_line or print_snip call follows for the input; with empty resolved
\* ranges at most one line is read and none is forwarded.
C12_StopsAtAfterLastRange ==
  /\ last_check = "AfterLastRange" =>
       /\ stopped /\ pc \in { "footer", "result" }
       /\ ClassOf(line_ranges, line_number) = "AfterLastRange"
       /\ reads = line_number /\ lines_read = line_number
       /\ Len(PrintLines) = line_number - 1
       /\ \A k \in 1..Len(calls) :
            /\ calls[k].op = "print_line" => calls[k].n < line_number
            /\ calls[k].op = "print_footer" =>
                 \A j \in k..Len(calls) : calls[j].op = "print_footer"
  /\ line_ranges = <<>> => (reads <= 1 /\ PrintLines = <<>>)

C12_Witness ==
  /\ last_check = "AfterLastRange" /\ pc = "result" /\ result = "Ok"
  /\ line_number = 3 /\ reads = 3 /\ Len(PrintLines) = 2
  /\ calls[Len(calls)].op = "print_footer"

\* the same for empty resolved ranges: one line read, none forwarded
StopsAtOnceOnEmptyRanges ==
  /\ line_ranges = <<>> /\ pc = "result" /\ result = "Ok"
  /\ reads = 1 /\ stopped /\ DiffMode(config) /\ line_changes = None

\* the number of decimal digits of n
RECURSIVE Digits(_)
Digits(n) == IF n < 10 THEN 1 ELSE 1 + Digits(n \div 10)

\* the width C13 states for an input of size sz with line count n
ClaimedWidth(sz, n) ==
  IF sz # None /\ sz[1] > SizeThreshold /\ n # None
  THEN Max(TAB_WIDTH, Digits(n[1]))
  ELSE TAB_WIDTH

\* C13: the line-number width is the baseline 4 unless the size exceeds 1000
\* and the line count is known, where it is the larger of 4 and the count's
\* number of digits; computing it never fails, also for a size above the
\* threshold with an unknown line count.
C13_WidthNeverFails ==
  /\ pc # "panic"
  /\ pc = "printer" => line_number_width = ClaimedWidth(size, file_num_lines)

\* the width is the stated one wherever it is computed
WidthAsClaimedWhereComputed ==
  pc = "printer" =>
    /\ line_number_width = ClaimedWidth(size, file_num_lines)
    /\ ~(size # None /\ size[1] > SizeThreshold /\ file_num_lines = None)

\* a large input whose line count is unknown ends the run in a panic
PanicsOnUnknownLineCount ==
  pc = "panic" <=>
    (/\ opened /\ ~skipped /\ printer = "none"
     /\ size # None /\ size[1] > SizeThreshold /\ file_num_lines = None
     /\ ret = "panic")

\* the line numbers emitted as in range for the current input
EmittedInRange ==
  { PrintLines[k].n : k \in { j \in 1..Len(PrintLines) : ~PrintLines[j].flag } }

\* the streaming loop of an input in diff-context mode with a change map has
\* ended without an error, at the end of the input or by its break
DiffStreamEnded ==
  /\ DiffMode(config) /\ line_changes # None
  /\ pc = "footer" /\ lines_read >= 1

\* the changed lines were produced in increasing order
KeysAscending ==
  \A a, b \in 1..Len(line_changes[1]) :
    a < b => line_changes[1][a] < line_changes[1][b]

InRangeIsUnionOfAscendingRanges ==
  (DiffStreamEnded /\ KeysAscending) =>
    EmittedInRange = { m \in 1..lines_read : InSomeRange(m) }

\* overlapping ranges in increasing order, streamed to the end of the input
OverlappingRangesStreamed ==
  /\ DiffStreamEnded /\ KeysAscending /\ ~stopped
  /\ Len(line_ranges) = 2 /\ line_ranges[2][1] <= line_ranges[1][2]
  /\ EmittedInRange # {}

\* C15: the error handler receives the destination's own writer if the
\* destination is a pager and the standard error stream otherwise, whichever
\* input failed and whatever the error was.
C15_HandlerWriterByDestination ==
  \A k \in 1..Len(handled) :
    handled[k][2] = IF output_type = "Pager" THEN "writer" ELSE "stderr"

C15_Witness ==
  /\ output_type = "Pager" /\ writer = "writer"
  /\ handled = << <<1, "writer">>, <<2, "writer">> >>
  /\ inputs[1].kind # inputs[2].kind

\* the same handler call without a pager
HandlerGivenStderr ==
  /\ output_type = "Stdout" /\ handled = << <<2, "stderr">> >>

\* the run has returned an error before its loop: nothing was opened,
\* rendered or handed to the error handler
FailedBeforeLoop ==
  /\ pc = "done" /\ ret = "Err"
  /\ log = <<>> /\ outcomes = <<>> /\ handled = <<>> /\ index = 1
  /\ ~opened /\ stdin = "none" /\ printer = "none" /\ calls = <<>> /\ reads = 0

\* C16: if constructing the destination or obtaining its writer fails, the
\* run returns that error, no input is opened or rendered and the error
\* handler is never invoked; the run returns an error in no other case.
C16_DestinationFailureIsFatal ==
  /\ (pc # "start" /\ output_type = "none") => FailedBeforeLoop
  /\ (pc \notin { "start", "writer" } /\ writer = "none") => FailedBeforeLoop
  /\ ret = "Err" => (FailedBeforeLoop /\ writer = "none")

C16_Witness ==
  /\ ret = "Err" /\ output_type = "Pager" /\ writer = "none"
  /\ Len(inputs) = 2 /\ inputs[1].kind = "OrdinaryFile" /\ inputs[1].exists

\* the same where the destination's construction fails
ConstructionFailed ==
  /\ ret = "Err" /\ output_type = "none" /\ Len(inputs) = 2

\* C17 as stated: the mode is downgraded to never only when the configured
\* mode is auto and no input is an existing file or a standard stream; in
\* every other case, mode always included, the mode handed to destination
\* construction is the configured mode.
C17_DowngradeOnlyWhenAuto ==
  paging_mode # "unset" =>
    paging_mode = IF config.paging_mode = "Auto" /\ NothingToPage(inputs)
                  THEN "Never" ELSE config.paging_mode

\* C17 as amended: the mode handed to destination construction is never
\* whenever no input is an existing file or a standard stream, whatever the
\* configured mode is (always included), and no pager is constructed then;
\* in every other case it is the configured mode.
C17_DowngradeWheneverNothingToPage ==
  paging_mode # "unset" =>
    /\ paging_mode = IF NothingToPage(inputs) THEN "Never" ELSE config.paging_mode
    /\ NothingToPage(inputs) => output_type # "Pager"

C17_Witness ==
  /\ config.paging_mode = "Always" /\ NothingToPage(inputs) /\ Len(inputs) = 2
  /\ paging_mode = "Never" /\ output_type = "Stdout" /\ pc = "done"

\* the configured mode always is kept where there is something to page
AlwaysKeptWithSomethingToPage ==
  /\ config.paging_mode = "Always" /\ ~NothingToPage(inputs)
  /\ paging_mode = "Always" /\ output_type = "Pager"

\* the place of a call's kind within the processing of one input
KindRank(kind) ==
  IF kind = "open" THEN 1 ELSE IF kind = "render" THEN 2 ELSE 3

\* C18: the inputs are processed one after another in the order supplied:
\* the open, the renderer calls and the error-handler call of input i all
\* come before the open and every renderer call of input j for i < j, and
\* each input is opened at most once.  Stated of the run's log: from one
\* entry to the next the input's index never decreases, and where it stays
\* the call's kind moves on (open, renderer calls, handler), so that no open
\* occurs twice; and the first entry of every input is its open.
C18_InputsInOrder ==
  /\ \A p \in 1..Len(log) : log[p][2] \in 1..Len(inputs)
  /\ \A p \in 1..(Len(log) - 1) :
       \/ log[p][2] < log[p + 1][2]
       \/ /\ log[p][2] = log[p + 1][2]
          /\ KindRank(log[p][1]) < KindRank(log[p + 1][1])
  /\ \A p \in 1..Len(log) :
       log[p][1] # "open" => (p > 1 /\ log[p - 1][2] = log[p][2])

C18_Witness ==
  log = << <<"open", 1>>, <<"render", 1>>, <<"handle", 1>>,
           <<"open", 2>>, <<"render", 2>>, <<"handle", 2>> >>

\* C19: an input skipped by the diff-mode rule counts as a success: the error
\* handler is not invoked for it and it does not make the result false, so a
\* run in which every input is skipped or rendered without error returns
\* Ok(true).
C19_SkippedCountsAsSuccess ==
  /\ \A i \in 1..Len(outcomes) :
       outcomes[i] = "skipped" => HandledCount(i) = 0
  /\ (writer # "none" /\ \A i \in 1..Len(outcomes) : outcomes[i] \in { "ok", "skipped" })
       => (no_errors /\ handled = <<>>)
  /\ (/\ pc = "done" /\ writer # "none" /\ Len(outcomes) = Len(inputs)
      /\ \A i \in 1..Len(outcomes) : outcomes[i] \in { "ok", "skipped" })
       => ret = "Ok(true)"

C19_Witness ==
  /\ pc = "done" /\ ret = "Ok(true)" /\ handled = <<>>
  /\ outcomes = <<"skipped", "ok">> /\ inputs[1].kind = "StdIn"

\* the same for a run whose every input is skipped, one of them a file with
\* an empty change map
EverythingSkipped ==
  /\ pc = "done" /\ ret = "Ok(true)"
  /\ outcomes = <<"skipped", "skipped">> /\ inputs[2].kind = "OrdinaryFile"

====
